---- MODULE Spec2Model ----
(***************************************************************************)
(* Model of the hash-linked ledger of src/blockchain.py (class Blockchain) *)
(* as a state machine: the chain of block records, the wall clock that     *)
(* stamps new blocks, and one action per public method of the class.       *)
(*                                                                         *)
(* Text is modelled as a sequence of ASCII codes, so that the digest       *)
(* str(n) + data of _to_digest is a real concatenation.  hashlib.sha256 is *)
(* library code and is modelled in the two ways the class uses it:         *)
(*   - _hash compares whole hex digests: the digest is an injective        *)
(*     function of the hashed bytes (collision freedom), Sha256Hex;        *)
(*   - the work condition looks at hexdigest()[:4] only: the prefix is a   *)
(*     deterministic mixing function of the bytes, Sha256Prefix, over a    *)
(*     reduced prefix space (PrefixSpace instead of 16^4).                 *)
(***************************************************************************)
EXTENDS Integers, Sequences, FiniteSets, TLC

VARIABLES
    chain,   \* Blockchain.chain: the list of block dicts
    now,     \* the reading datetime.now() gives at this moment
    calls,   \* how many mutating calls have been made (bounds the exploration)
    last,    \* the last call made on the ledger and its outcome
    req      \* per worker thread of the HTTP layer, the mine request it is serving

vars == <<chain, now, calls, last, req>>

(***************************************************************************)
(* Bounds of the model.                                                    *)
(***************************************************************************)
\* number of mutating calls (mine_block, delete_block, clear) explored
MaxCalls == 5
\* largest reading of the wall clock
MaxTime == 1
\* number of values the 4-character digest prefix can take in the model
PrefixSpace == 4
\* the proof search is explored up to this candidate
ProofCap == 40
\* delete_block is tried with every proof in the chain and with 0..MaxProofArg
MaxProofArg == 1
\* a tampered proof field is overwritten with 1..MaxTamperProof
MaxTamperProof == 4
\* a block is tampered with after at most this many mutating calls
MaxCallsBeforeTamper == 2

(***************************************************************************)
(* Text and payloads.                                                      *)
(***************************************************************************)
\* "genesis block"
GenesisData == <<103, 101, 110, 101, 115, 105, 115, 32, 98, 108, 111, 99, 107>>

\* payloads handed to mine_block: "a", "b"
DataSet == {<<97>>, <<98>>}

RECURSIVE Digits(_)
\* decimal digits of a natural number, as ASCII codes
Digits(n) == IF n < 10 THEN <<48 + n>> ELSE Digits(n \div 10) \o <<48 + (n % 10)>>

\* str(n) for a Python int
Str(n) == IF n < 0 THEN <<45>> \o Digits(-n) ELSE Digits(n)

(***************************************************************************)
(* hashlib.sha256                                                          *)
(***************************************************************************)
RECURSIVE Mix(_, _)
Mix(h, bytes) ==
    IF bytes = <<>> THEN h
    ELSE Mix((h * 31 + Head(bytes)) % 251, Tail(bytes))

\* the value of hexdigest()[:4], 0 standing for "0000"
Sha256Prefix(bytes) == Mix(7, bytes) % PrefixSpace

\* the whole hex digest, one digest per input
Sha256Hex(bytes) == <<"sha256", bytes>>

(***************************************************************************)
(* Blocks                                                                  *)
(***************************************************************************)
\* previous_hash of the genesis block, the string "0"
GenesisPreviousHash == <<"0">>

_create_block(data, proof, previous_hash, index, timestamp) ==
    [index |-> index, timestamp |-> timestamp, data |-> data,
     proof |-> proof, previous_hash |-> previous_hash]

\* json.dumps(block, sort_keys=True): the fields in key order
JsonDumps(block) ==
    <<block.data, block.index, block.previous_hash, block.proof, block.timestamp>>

_hash(block) == Sha256Hex(JsonDumps(block))

_to_digest(new_proof, previous_proof, index, data) ==
    Str(new_proof * new_proof - previous_proof * previous_proof + index) \o data

\* hash_operation[:4] == "0000"
WorkCondition(new_proof, previous_proof, index, data) ==
    Sha256Prefix(_to_digest(new_proof, previous_proof, index, data)) = 0

RECURSIVE ProofSearch(_, _, _, _)
\* the while loop of _proof_of_work from candidate new_proof on; 0 when the
\* loop is still running after ProofCap candidates
ProofSearch(new_proof, previous_proof, index, data) ==
    IF new_proof > ProofCap THEN 0
    ELSE IF WorkCondition(new_proof, previous_proof, index, data) THEN new_proof
    ELSE ProofSearch(new_proof + 1, previous_proof, index, data)

\* the search starting at new_proof = 2
_proof_of_work_FromTwo(previous_proof, index, data) ==
    ProofSearch(2, previous_proof, index, data)

_proof_of_work(previous_proof, index, data) ==
    ProofSearch(1, previous_proof, index, data)

\* validate_block without the comparison of previous_hash
validate_block_NoLink(block, previous_block) ==
    WorkCondition(block.proof, previous_block.proof, block.index, block.data)

validate_block(block, previous_block) ==
    IF block.previous_hash # _hash(previous_block) THEN FALSE
    ELSE IF ~WorkCondition(block.proof, previous_block.proof, block.index, block.data)
         THEN FALSE
         ELSE TRUE

\* the loop over range(0, len(chain)): chain[0] is checked against chain[-1]
is_chain_valid_FromZero(c) ==
    \A i \in 1..Len(c) : validate_block(c[i], c[IF i = 1 THEN Len(c) ELSE i - 1])

\* the loop over range(1, len(chain)); positions are 1-based here
is_chain_valid(c) ==
    \A i \in 2..Len(c) : validate_block(c[i], c[i - 1])

(***************************************************************************)
(* The record of the last call: which method ran, its argument, whether it *)
(* raised, the block it returned (mine_block, get_previous_block), the     *)
(* boolean it returned (is_chain_valid) and the block delete_block removed.*)
(* For a write to a block from outside the class (Tamper) it holds the      *)
(* position and the field written, and valid is is_chain_valid() before it. *)
(***************************************************************************)
NoCall ==
    [op |-> "init", data |-> <<>>, proof |-> 0, raised |-> "none",
     ret |-> <<>>, valid |-> TRUE, removed |-> <<>>, pos |-> 0, field |-> "none"]

\* worker threads of the HTTP layer that can serve a mine request at once
Threads == {1, 2}

\* a worker thread that serves no mine request
Idle ==
    [pc |-> "idle", data |-> <<>>, previous_block |-> <<>>, pos |-> 0,
     previous_proof |-> 0, index |-> 0]

GenesisBlock(timestamp) ==
    _create_block(GenesisData, 1, GenesisPreviousHash, 1, timestamp)

\* Blockchain.__init__
Init ==
    /\ now = 0
    /\ chain = <<GenesisBlock(0)>>
    /\ calls = 0
    /\ last = NoCall
    /\ req = [t \in Threads |-> Idle]

\* time passes between calls
Tick ==
    /\ now < MaxTime
    /\ now' = now + 1
    /\ UNCHANGED <<chain, calls, last, req>>

\* Blockchain.get_previous_block: chain[-1], IndexError on an empty list
GetPreviousBlock ==
    /\ last' = IF chain = <<>>
               THEN [NoCall EXCEPT !.op = "get_previous_block", !.raised = "IndexError"]
               ELSE [NoCall EXCEPT !.op = "get_previous_block",
                                   !.ret = <<chain[Len(chain)]>>]
    /\ UNCHANGED <<chain, now, calls, req>>

\* mine_block sealing with len(chain) instead of len(chain) + 1
MinedBlock_SealsOldLength(c, data, timestamp) ==
    LET previous_block == c[Len(c)]
        index == Len(c) + 1
        proof == _proof_of_work(previous_block.proof, Len(c), data)
    IN  _create_block(data, proof, _hash(previous_block), index, timestamp)

\* the block mine_block builds on a non-empty chain
MinedBlock(c, data, timestamp) ==
    LET previous_block == c[Len(c)]
        index == Len(c) + 1
        proof == _proof_of_work(previous_block.proof, index, data)
    IN  _create_block(data, proof, _hash(previous_block), index, timestamp)

\* Blockchain.mine_block
MineBlock(data) ==
    /\ calls < MaxCalls
    /\ calls' = calls + 1
    /\ IF chain = <<>>
       THEN /\ last' = [NoCall EXCEPT !.op = "mine_block", !.data = data,
                                      !.raised = "IndexError"]
            /\ UNCHANGED chain
       ELSE LET block == MinedBlock(chain, data, now)
            IN  /\ block.proof # 0
                /\ chain' = Append(chain, block)
                /\ last' = [NoCall EXCEPT !.op = "mine_block", !.data = data,
                                          !.ret = <<block>>]
    /\ UNCHANGED <<now, req>>

\* is_chain_valid dropping what follows the genesis block when a check fails
IsChainValid_Truncates ==
    /\ last' = [NoCall EXCEPT !.op = "is_chain_valid", !.valid = is_chain_valid(chain)]
    /\ chain' = IF is_chain_valid(chain) THEN chain ELSE SubSeq(chain, 1, 1)
    /\ UNCHANGED <<now, calls, req>>

\* Blockchain.is_chain_valid, called by the owner of the ledger
IsChainValid ==
    /\ last' = [NoCall EXCEPT !.op = "is_chain_valid", !.valid = is_chain_valid(chain)]
    /\ UNCHANGED <<chain, now, calls, req>>

\* the scan falling back to the last block when no proof matches
FirstWithProof_OrLast(c, proof) ==
    IF \E i \in 1..Len(c) : c[i].proof = proof
    THEN CHOOSE i \in 1..Len(c) :
            /\ c[i].proof = proof
            /\ \A j \in 1..(i - 1) : c[j].proof # proof
    ELSE Len(c)

\* the scan without its break: the last block with that proof
FirstWithProof_NoBreak(c, proof) ==
    IF \E i \in 1..Len(c) : c[i].proof = proof
    THEN CHOOSE i \in 1..Len(c) :
            /\ c[i].proof = proof
            /\ \A j \in (i + 1)..Len(c) : c[j].proof # proof
    ELSE 0

\* the scan "for block in self.chain: if block['proof'] == proof": the
\* position of the first block with that proof, 0 when there is none
FirstWithProof(c, proof) ==
    IF \E i \in 1..Len(c) : c[i].proof = proof
    THEN CHOOSE i \in 1..Len(c) :
            /\ c[i].proof = proof
            /\ \A j \in 1..(i - 1) : c[j].proof # proof
    ELSE 0

\* list.remove(block): drops the first element equal to block
ListRemove(c, block) ==
    LET k == CHOOSE i \in 1..Len(c) :
                /\ c[i] = block
                /\ \A j \in 1..(i - 1) : c[j] # block
    IN  SubSeq(c, 1, k - 1) \o SubSeq(c, k + 1, Len(c))

\* the repair loop body re-linking a block without re-sealing it
RepairBlock_KeepsProof(c, i) ==
    [c EXCEPT ![i] = [@ EXCEPT !.previous_hash = _hash(c[i - 1])]]

\* one pass of the repair loop body on position i (1-based)
RepairBlock(c, i) ==
    [c EXCEPT ![i] = [@ EXCEPT
        !.previous_hash = _hash(c[i - 1]),
        !.proof = _proof_of_work(c[i - 1].proof, c[i].index, c[i].data)]]

RECURSIVE RepairFrom(_, _)
\* "for i in range(len(chain) - 1, 0, -1)": from the tail down to the second
\* block, each pass reading its predecessor as it is at that moment
RepairFrom(c, i) ==
    IF i < 2 THEN c ELSE RepairFrom(RepairBlock(c, i), i - 1)

\* the chain delete_block leaves when the scan found position k
DeleteResult(c, k) ==
    LET removed == ListRemove(c, c[k])
    IN  RepairFrom(removed, Len(removed))

\* Blockchain.delete_block
DeleteBlock(proof) ==
    /\ calls < MaxCalls
    /\ calls' = calls + 1
    /\ LET k == FirstWithProof(chain, proof)
       IN  IF k = 0
           THEN /\ UNCHANGED chain
                /\ last' = [NoCall EXCEPT !.op = "delete_block", !.proof = proof]
           ELSE LET result == DeleteResult(chain, k)
                IN  /\ \A i \in 1..Len(result) : result[i].proof # 0
                    /\ chain' = result
                    /\ last' = [NoCall EXCEPT !.op = "delete_block", !.proof = proof,
                                              !.removed = <<chain[k]>>]
    /\ UNCHANGED <<now, req>>

\* Blockchain.clear: [self.chain[0]], IndexError on an empty list
Clear ==
    /\ calls < MaxCalls
    /\ calls' = calls + 1
    /\ IF chain = <<>>
       THEN /\ last' = [NoCall EXCEPT !.op = "clear", !.raised = "IndexError"]
            /\ UNCHANGED chain
       ELSE /\ chain' = <<chain[1]>>
            /\ last' = [NoCall EXCEPT !.op = "clear"]
    /\ UNCHANGED <<now, req>>

\* the proofs delete_block is called with
ProofArgs == (0..MaxProofArg) \cup {chain[i].proof : i \in 1..Len(chain)}

Next ==
    \/ Tick
    \/ GetPreviousBlock
    \/ IsChainValid
    \/ \E data \in DataSet : MineBlock(data)
    \/ \E proof \in ProofArgs : DeleteBlock(proof)
    \/ Clear

Spec == Init /\ [][Next]_vars
(***************************************************************************)
(* Tampering: the chain is a public attribute holding mutable dicts, so    *)
(* code outside the class can overwrite one field of one block.            *)
(***************************************************************************)
\* the fixed fields of the genesis record
IsGenesisRecord(block) ==
    /\ block.index = 1
    /\ block.data = GenesisData
    /\ block.proof = 1
    /\ block.previous_hash = GenesisPreviousHash

Fields == {"index", "timestamp", "data", "proof", "previous_hash"}

\* the values a field can be overwritten with
FieldValues(c, field) ==
    CASE field = "index" -> 1..(Len(c) + 1)
      [] field = "timestamp" -> 0..(MaxTime + 1)
      [] field = "data" -> DataSet \cup {<<99>>}
      [] field = "proof" -> 1..MaxTamperProof
      [] field = "previous_hash" ->
            {GenesisPreviousHash} \cup {_hash(c[j]) : j \in 1..Len(c)}

\* chain[pos][field] = value
SetField(block, field, value) ==
    CASE field = "index" -> [block EXCEPT !.index = value]
      [] field = "timestamp" -> [block EXCEPT !.timestamp = value]
      [] field = "data" -> [block EXCEPT !.data = value]
      [] field = "proof" -> [block EXCEPT !.proof = value]
      [] field = "previous_hash" -> [block EXCEPT !.previous_hash = value]

\* one outside write is explored per behaviour: it uses up what is left of
\* the budget of mutating calls, and only the read-only calls follow it
Tamper(pos, field, value) ==
    /\ calls <= MaxCallsBeforeTamper
    /\ calls < MaxCalls
    /\ calls' = MaxCalls
    /\ ~IsGenesisRecord(chain[pos])
    /\ SetField(chain[pos], field, value) # chain[pos]
    /\ chain' = [chain EXCEPT ![pos] = SetField(@, field, value)]
    /\ last' = [NoCall EXCEPT !.op = "tamper", !.pos = pos, !.field = field,
                              !.valid = is_chain_valid(chain)]
    /\ UNCHANGED <<now, req>>

NextTamper ==
    \/ Next
    \/ \E pos \in 1..Len(chain) : \E field \in Fields :
          \E value \in FieldValues(chain, field) : Tamper(pos, field, value)

SpecTamper == Init /\ [][NextTamper]_vars
(***************************************************************************)
(* Steps of the methods, recognised by the record of the last call.        *)
(***************************************************************************)
MineStep == last'.op = "mine_block" /\ calls' = calls + 1
DeleteStep == last'.op = "delete_block" /\ calls' = calls + 1
TamperStep == last'.op = "tamper" /\ calls' # calls

\* the last block of a sequence
Last(c) == c[Len(c)]

(***************************************************************************)
(* Properties                                                              *)
(***************************************************************************)

\* C1: in every state reachable by mine_block, delete_block and clear, every
\* block after the first links to the hash of its predecessor and meets the
\* work condition against its predecessor's proof (is_chain_valid() is true).
C1_ChainAlwaysValid ==
    \A i \in 2..Len(chain) :
        /\ chain[i].previous_hash = _hash(chain[i - 1])
        /\ WorkCondition(chain[i].proof, chain[i - 1].proof,
                         chain[i].index, chain[i].data)

\* C2: in every reachable state chain[0] is the genesis block, and
\* delete_block never removes the genesis block.
C2_GenesisFirst ==
    /\ chain # <<>>
    /\ IsGenesisRecord(chain[1])
    /\ \A i \in 1..Len(last.removed) : ~IsGenesisRecord(last.removed[i])

\* C3: the chain holds at least one block in every reachable state.
C3_NeverEmpty == Len(chain) >= 1

\* C4: mine_block, get_previous_block and clear never raise, and mine_block
\* returns the block it appended.
C4_NeverRaises ==
    /\ last.raised = "none"
    /\ last.op = "mine_block" => last.ret = <<Last(chain)>>

\* C5: mine_block(data) appends exactly one block and changes nothing else:
\* the new last block has index = old length + 1, the given data and
\* previous_hash = hash(old last block), and it is the returned block.
C5_MineAppends ==
    [][MineStep =>
        /\ Len(chain') = Len(chain) + 1
        /\ SubSeq(chain', 1, Len(chain)) = chain
        /\ Last(chain').index = Len(chain) + 1
        /\ Last(chain').data = last'.data
        /\ Last(chain').previous_hash = _hash(Last(chain))
        /\ last'.ret = <<Last(chain')>>]_vars

\* C6: mine_block keeps a valid chain valid, and the block it returns passes
\* validate_block against the block that was last before the call.
C6_MinePreservesValidity ==
    [][MineStep =>
        /\ is_chain_valid(chain) => is_chain_valid(chain')
        /\ \A i \in 1..Len(last'.ret) : validate_block(last'.ret[i], Last(chain))]_vars

\* C6 witness: a block was mined onto a valid chain of at least two blocks
C6_Witness ==
    /\ last.op = "mine_block"
    /\ last.ret # <<>>
    /\ Len(chain) >= 3
    /\ is_chain_valid(chain)

\* C7 as stated: on a valid chain, overwriting any one field of any
\* non-genesis block with a different value makes is_chain_valid() false.
C7_AnyTamperDetected ==
    [][TamperStep /\ is_chain_valid(chain) => ~is_chain_valid(chain')]_vars

\* C7 amended: on a valid chain, overwriting any one field of a non-genesis
\* block that has a successor in the chain makes is_chain_valid() false.
C7_TamperBeforeLastDetected ==
    [][TamperStep /\ is_chain_valid(chain) /\ last'.pos < Len(chain)
        => ~is_chain_valid(chain')]_vars

\* C7 witness: a field of a block with a successor was overwritten on a chain
\* that was valid, and the chain is now invalid
C7_Witness ==
    /\ last.op = "tamper"
    /\ last.valid
    /\ last.pos >= 2
    /\ last.pos < Len(chain)
    /\ last.field = "timestamp"
    /\ ~is_chain_valid(chain)

\* C8: after clear() the chain is exactly the original genesis block.
C8_ClearLeavesGenesis ==
    last.op = "clear" => chain = <<GenesisBlock(0)>>

\* C9: delete_block(p) with no block of proof p raises nothing and leaves the
\* chain as it was.
C9_DeleteMissingIsNoOp ==
    [][DeleteStep /\ (\A i \in 1..Len(chain) : chain[i].proof # last'.proof)
        => chain' = chain /\ last'.raised = "none" /\ last'.removed = <<>>]_vars

\* C9 witness: delete_block ran on a chain with mined blocks and found nothing
C9_Witness ==
    /\ last.op = "delete_block"
    /\ last.removed = <<>>
    /\ Len(chain) >= 3
    /\ \A i \in 1..Len(chain) : chain[i].proof # last.proof

\* the index, data and timestamp of a block
Identity(block) == <<block.index, block.data, block.timestamp>>

\* C10: when some block has proof p, delete_block(p) removes exactly the
\* first such block; the others keep their order, index, data and timestamp.
C10_DeleteRemovesFirstMatch ==
    [][DeleteStep /\ (\E i \in 1..Len(chain) : chain[i].proof = last'.proof) =>
        \E k \in 1..Len(chain) :
            /\ chain[k].proof = last'.proof
            /\ \A j \in 1..(k - 1) : chain[j].proof # last'.proof
            /\ last'.removed = <<chain[k]>>
            /\ Len(chain') = Len(chain) - 1
            /\ \A i \in 1..(k - 1) : Identity(chain'[i]) = Identity(chain[i])
            /\ \A i \in k..Len(chain') : Identity(chain'[i]) = Identity(chain[i + 1])]_vars

\* C10 witness: delete_block removed a block that was neither first nor last,
\* while a later block carried the same proof
C10_Witness ==
    /\ last.op = "delete_block"
    /\ last.removed # <<>>
    /\ Len(chain) >= 3
    /\ \E i \in 2..Len(chain) :
          /\ chain[i - 1].index < last.removed[1].index
          /\ chain[i].index > last.removed[1].index
    /\ \E i \in 1..Len(chain) : chain[i].proof = last.proof

\* the position delete_block removed: the first block equal to the removed one
RemovedPos(c, removed) ==
    CHOOSE k \in 1..Len(c) : c[k] = removed /\ \A j \in 1..(k - 1) : c[j] # removed

\* the (previous_hash, proof) pair of a block
Seal(block) == <<block.previous_hash, block.proof>>

\* C11: on a chain of the genesis block and at least 3 mined blocks, when
\* delete_block removes a mined block that is not the last one, every block
\* after it ends with a (previous_hash, proof) pair different from the one it had.
C11_SuffixResealed ==
    [][DeleteStep /\ last'.removed # <<>> /\ Len(chain) >= 4
         /\ IsGenesisRecord(chain[1]) =>
        LET k == RemovedPos(chain, last'.removed[1])
        IN  (k >= 2 /\ k < Len(chain)) =>
                \A i \in k..Len(chain') : Seal(chain'[i]) # Seal(chain[i + 1])]_vars

\* C12: no two blocks of the chain carry the same index.
C12_IndexUnique ==
    \A i, j \in 1..Len(chain) : i # j => chain[i].index # chain[j].index

(***************************************************************************)
(* validate_block is public too: the owner of the ledger can call it on    *)
(* any two blocks of the chain.                                            *)
(***************************************************************************)
\* Blockchain.validate_block(chain[i], chain[j])
ValidateBlock(i, j) ==
    /\ last' = [NoCall EXCEPT !.op = "validate_block",
                              !.valid = validate_block(chain[i], chain[j])]
    /\ UNCHANGED <<chain, now, calls, req>>

NextValidate ==
    \/ Next
    \/ \E i \in 1..Len(chain) : \E j \in 1..Len(chain) : ValidateBlock(i, j)

SpecValidate == Init /\ [][NextValidate]_vars

\* a step that is a call of is_chain_valid or validate_block, or follows one
\* without any mutating call
ValidationStep ==
    /\ last'.op \in {"is_chain_valid", "validate_block"}
    /\ calls' = calls

C14_FreshLedger ==
    calls = 0 =>
        /\ Len(chain) = 1
        /\ IsGenesisRecord(chain[1])
        /\ is_chain_valid(chain)
        /\ last.op = "is_chain_valid" => last.valid

\* C14 witness: is_chain_valid() was called on the fresh ledger and returned true
C14_Witness ==
    /\ calls = 0
    /\ last.op = "is_chain_valid"
    /\ last.valid
    /\ chain = <<GenesisBlock(0)>>

(***************************************************************************)
(* The ledger observed from its first mined block on: the state after one  *)
(* mine_block call on a fresh ledger, calls counting the calls made from   *)
(* there.                                                                  *)
(***************************************************************************)
InitMined ==
    \E data \in DataSet :
        LET block == MinedBlock(<<GenesisBlock(0)>>, data, 0)
        IN  /\ now = 0
            /\ chain = <<GenesisBlock(0), block>>
            /\ calls = 0
            /\ last = [NoCall EXCEPT !.op = "mine_block", !.data = data,
                                     !.ret = <<block>>]
            /\ req = [t \in Threads |-> Idle]

SpecMined == InitMined /\ [][Next]_vars

\* C15: delete_block leaves every block that preceded the removed one as it
\* was, in all its fields; when the removed block was the last one, that is
\* every surviving block.
C15_DeleteKeepsPrefix ==
    [][DeleteStep /\ last'.removed # <<>> =>
        LET k == RemovedPos(chain, last'.removed[1])
        IN  \A i \in 1..(k - 1) : chain'[i] = chain[i]]_vars

\* the candidates from lowest up to (not including) proof fail the work condition
NoneBelow(lowest, proof, previous_proof, index, data) ==
    \A q \in lowest..(proof - 1) : ~WorkCondition(q, previous_proof, index, data)

\* C16 as stated: the proof _proof_of_work finds for (previous_proof, index,
\* data) meets the work condition validate_block checks and is the smallest
\* non-negative integer that does.
C16_SmallestNonNegative ==
    [][MineStep /\ last'.ret # <<>> =>
        LET block == last'.ret[1]
        IN  /\ WorkCondition(block.proof, Last(chain).proof, block.index, block.data)
            /\ NoneBelow(0, block.proof, Last(chain).proof, block.index, block.data)]_vars

\* C16 amended: the proof _proof_of_work finds meets the work condition
\* validate_block checks and is the smallest integer from 1 up that does.
C16_SmallestPositive ==
    [][MineStep /\ last'.ret # <<>> =>
        LET block == last'.ret[1]
        IN  /\ block.proof >= 1
            /\ WorkCondition(block.proof, Last(chain).proof, block.index, block.data)
            /\ NoneBelow(1, block.proof, Last(chain).proof, block.index, block.data)]_vars

\* C16 witness: a block was mined whose search passed over failing candidates,
\* for an input on which the candidate 0 meets the work condition
C16_Witness ==
    /\ last.op = "mine_block"
    /\ last.ret # <<>>
    /\ Len(chain) >= 2
    /\ last.ret[1] = Last(chain)
    /\ Last(chain).proof > 1
    /\ WorkCondition(0, chain[Len(chain) - 1].proof, Last(chain).index, Last(chain).data)

\* every block after the first carries the proof _proof_of_work gives for it
AllSealed(c) ==
    \A i \in 2..Len(c) : c[i].proof = _proof_of_work(c[i - 1].proof, c[i].index, c[i].data)

\* C17: on a valid chain whose blocks were sealed by _proof_of_work, a
\* delete_block that removes the last or the second-to-last block leaves
\* is_chain_valid() true.
C17_DeleteNearTailKeepsValid ==
    [][DeleteStep /\ last'.removed # <<>> /\ is_chain_valid(chain) /\ AllSealed(chain) =>
        LET k == RemovedPos(chain, last'.removed[1])
        IN  k >= Len(chain) - 1 => is_chain_valid(chain')]_vars

\* C17 witness: delete_block removed the second-to-last block of a chain of
\* four or more (the removed block was linked to the block that is now second
\* to last, and the last block had been mined right after it), the last block
\* is linked to its new predecessor and the chain is valid
C17_Witness ==
    /\ last.op = "delete_block"
    /\ last.removed # <<>>
    /\ Len(chain) >= 3
    /\ last.removed[1].previous_hash = _hash(chain[Len(chain) - 1])
    /\ Last(chain).index = last.removed[1].index + 1
    /\ Last(chain).previous_hash = _hash(chain[Len(chain) - 1])
    /\ is_chain_valid(chain)

(***************************************************************************)
(* The HTTP layer of src/main.py.  The endpoints are plain "def" functions *)
(* on one module-level Blockchain and take no lock; the server runs each   *)
(* request on a worker thread, so requests overlap.  A mine request is     *)
(* followed through its steps: the validity check of the endpoint, the     *)
(* reads at the top of mine_block, and the sealing and append.  Delete and *)
(* clear requests are taken as single steps between those.  previous_block *)
(* in mine_block is a reference to a dict of the chain: a thread keeps the *)
(* position of that dict (0 once it left the chain), and its content       *)
(* follows what the repair loop of a delete request writes into it.        *)
(***************************************************************************)
\* POST /mine_block, main.py:25-26: the check before blockchain.mine_block
HttpMineStart(t, data) ==
    /\ req[t].pc = "idle"
    /\ calls < MaxCalls
    /\ calls' = calls + 1
    /\ IF ~is_chain_valid(chain)
       THEN /\ last' = [NoCall EXCEPT !.op = "POST /mine_block", !.data = data,
                                      !.raised = "400"]
            /\ UNCHANGED req
       ELSE /\ req' = [req EXCEPT ![t] = [Idle EXCEPT !.pc = "checked", !.data = data]]
            /\ UNCHANGED last
    /\ UNCHANGED <<chain, now>>

\* mine_block, blockchain.py:45-47: previous_block, previous_proof and index
HttpMineRead(t) ==
    /\ req[t].pc = "checked"
    /\ IF chain = <<>>
       THEN /\ req' = [req EXCEPT ![t] = Idle]
            /\ last' = [NoCall EXCEPT !.op = "POST /mine_block", !.data = req[t].data,
                                      !.raised = "IndexError"]
       ELSE /\ req' = [req EXCEPT ![t] =
                         [pc |-> "read", data |-> req[t].data,
                          previous_block |-> <<Last(chain)>>, pos |-> Len(chain),
                          previous_proof |-> Last(chain).proof,
                          index |-> Len(chain) + 1]]
            /\ UNCHANGED last
    /\ UNCHANGED <<chain, now, calls>>

\* mine_block, blockchain.py:48-56: the sealing, the hash of previous_block
\* as it is now, and the append to the chain as it is now
HttpMineAppend(t) ==
    /\ req[t].pc = "read"
    /\ LET r == req[t]
           proof == _proof_of_work(r.previous_proof, r.index, r.data)
           block == _create_block(r.data, proof, _hash(r.previous_block[1]),
                                  r.index, now)
       IN  /\ proof # 0
           /\ chain' = Append(chain, block)
           /\ last' = [NoCall EXCEPT !.op = "POST /mine_block", !.data = r.data,
                                     !.ret = <<block>>]
    /\ req' = [req EXCEPT ![t] = Idle]
    /\ UNCHANGED <<now, calls>>

\* what a thread's previous_block refers to after delete_block removed
\* position k and left the chain result
AfterDelete(r, k, result) ==
    IF r.pos = 0 THEN r
    ELSE IF r.pos = k THEN [r EXCEPT !.pos = 0]
    ELSE LET q == IF r.pos > k THEN r.pos - 1 ELSE r.pos
         IN  [r EXCEPT !.pos = q, !.previous_block = <<result[q]>>]

\* POST /delete_block with a proof, main.py:100-104
HttpDelete(proof) ==
    /\ calls < MaxCalls
    /\ calls' = calls + 1
    /\ LET k == FirstWithProof(chain, proof)
       IN  IF k = 0
           THEN /\ UNCHANGED <<chain, req>>
                /\ last' = [NoCall EXCEPT !.op = "POST /delete_block", !.proof = proof]
           ELSE LET result == DeleteResult(chain, k)
                IN  /\ \A i \in 1..Len(result) : result[i].proof # 0
                    /\ chain' = result
                    /\ req' = [t \in Threads |-> AfterDelete(req[t], k, result)]
                    /\ last' = [NoCall EXCEPT !.op = "POST /delete_block",
                                              !.proof = proof, !.removed = <<chain[k]>>]
    /\ UNCHANGED now

\* POST /clear, main.py:69-82: refused on a one-block chain, else clear()
HttpClear ==
    /\ calls < MaxCalls
    /\ calls' = calls + 1
    /\ IF Len(chain) = 1
       THEN /\ last' = [NoCall EXCEPT !.op = "POST /clear", !.raised = "400"]
            /\ UNCHANGED <<chain, req>>
       ELSE IF chain = <<>>
       THEN /\ last' = [NoCall EXCEPT !.op = "POST /clear", !.raised = "IndexError"]
            /\ UNCHANGED <<chain, req>>
       ELSE /\ chain' = <<chain[1]>>
            /\ req' = [t \in Threads |->
                         IF req[t].pos > 1 THEN [req[t] EXCEPT !.pos = 0] ELSE req[t]]
            /\ last' = [NoCall EXCEPT !.op = "POST /clear"]
    /\ UNCHANGED now

NextHttp ==
    \/ Tick
    \/ \E t \in Threads : \E data \in DataSet : HttpMineStart(t, data)
    \/ \E t \in Threads : HttpMineRead(t)
    \/ \E t \in Threads : HttpMineAppend(t)
    \/ \E proof \in ProofArgs : HttpDelete(proof)
    \/ HttpClear

SpecHttp == Init /\ [][NextHttp]_vars

\* a mine request passes the check of the endpoint
HttpAdmitStep == \E t \in Threads : req[t].pc = "idle" /\ req'[t].pc = "checked"

\* a mine request appends its block
HttpAppendStep == \E t \in Threads : req[t].pc = "read" /\ req'[t].pc = "idle"

\* a mine request is answered with the error of the endpoint
HttpRejectStep ==
    /\ last'.op = "POST /mine_block"
    /\ last'.raised = "400"
    /\ calls' = calls + 1

\* C18: requests of the HTTP layer are serialized: the read, sealing and
\* append of every mine request behave as one step, so the block appended
\* carries index = length + 1 and the hash of the block that is last when it
\* is appended, repeats no index or previous_hash of the chain, and a valid
\* chain stays valid.
C18_MineIsAtomic ==
    [][HttpAppendStep =>
        /\ Last(chain').index = Len(chain) + 1
        /\ Last(chain').previous_hash = _hash(Last(chain))
        /\ \A i \in 1..Len(chain) :
              /\ chain[i].index # Last(chain').index
              /\ chain[i].previous_hash # Last(chain').previous_hash
        /\ is_chain_valid(chain) => is_chain_valid(chain')]_vars

\* C19: the mine endpoint lets a request through only when is_chain_valid()
\* is true, answers with an error and leaves the chain alone when it is
\* false, and never appends a block onto an invalid chain.
C19_MineOnlyOnValidChain ==
    [][/\ HttpAdmitStep => is_chain_valid(chain)
       /\ HttpRejectStep => (~is_chain_valid(chain) /\ chain' = chain)
       /\ HttpAppendStep => is_chain_valid(chain)]_vars
====
